---- MODULE Spec2Model ----
(***************************************************************************)
(* Model of the nlp crate (morphmeme/nlp): Levenshtein distance, alignment *)
(* path / alignment strings, the max-match segmenter and the word error    *)
(* rate.  Every library function is pure; the state machine draws one call *)
(* (function and arguments) in Init and the function's action applies it.  *)
(*                                                                         *)
(* Indexing: Rust sequences are 0-based, TLA+ sequences 1-based, so the    *)
(* code's graphemes1[row-1] is graphemes1[row] here, and slice(a, b) is    *)
(* SubSeq(s, a+1, b).  Matrices keep the code's 0-based rows and columns.  *)
(***************************************************************************)
EXTENDS Integers, Sequences, FiniteSets, TLC

VARIABLES fn, args, ret, pc

vars == <<fn, args, ret, pc>>

(***************************************************************************)
(* Bounds of the model and the input sets drawn from them.                 *)
(***************************************************************************)
MaxLen == 3

Letters == {"a", "b"}

Space == " "

SubCosts == {0, 1, 2, 3}

RECURSIVE SeqsUpTo(_, _)
SeqsUpTo(S, n) ==
    IF n = 0 THEN {<<>>}
    ELSE LET shorter == SeqsUpTo(S, n - 1)
         IN  shorter \cup {Append(s, x) : s \in {t \in shorter : Len(t) = n - 1}, x \in S}

LetterSeqs == SeqsUpTo(Letters, MaxLen)

Sentences == SeqsUpTo(Letters \cup {Space}, MaxLen)

Placeholders == Letters \cup {Space}

DictWords ==
    { <<"a">>, <<"b">>, <<"a", "b">>, <<"a", "a">>, <<"a", " ", "a">>, <<>> }

Dictionaries == SUBSET DictWords

(***************************************************************************)
(* std::cmp::min and Vec::reverse.                                         *)
(***************************************************************************)
min(x, y) == IF x <= y THEN x ELSE y

reverse(s) == [k \in 1..Len(s) |-> s[Len(s) + 1 - k]]

(***************************************************************************)
(* itertools cartesian_product of (1..num_rows) and (1..num_cols): the     *)
(* coordinates (row, col) in row-major order, rows 1..num_rows-1.          *)
(***************************************************************************)
cartesian_product(num_rows, num_cols) ==
    LET R == num_rows - 1
        C == num_cols - 1
    IN  [k \in 1..(R * C) |-> << ((k - 1) \div C) + 1, ((k - 1) % C) + 1 >>]

(***************************************************************************)
(* lib.rs levenshtein_distance_recurrence_matrix.                          *)
(***************************************************************************)
zero_matrix(num_rows, num_cols) ==
    [row \in 0..(num_rows - 1) |-> [col \in 0..(num_cols - 1) |-> 0]]

border_matrix(num_rows, num_cols) ==
    [row \in 0..(num_rows - 1) |-> [col \in 0..(num_cols - 1) |->
        IF col = 0 THEN row
        ELSE IF row = 0 THEN col
        ELSE zero_matrix(num_rows, num_cols)[row][col]]]

recurrence_cell_asym(m, row, col, graphemes1, graphemes2, sub_cost) ==
    min(min(m[row - 1][col] + 2,
            m[row][col - 1] + 1),
        m[row - 1][col - 1]
            + (IF graphemes1[row] = graphemes2[col] THEN 0 ELSE sub_cost))

recurrence_cell_nosub(m, row, col, graphemes1, graphemes2, sub_cost) ==
    min(min(m[row - 1][col] + 1,
            m[row][col - 1] + 1),
        m[row - 1][col - 1]
            + (IF graphemes1[row] = graphemes2[col] THEN 0 ELSE 1))

recurrence_cell_inverted(m, row, col, graphemes1, graphemes2, sub_cost) ==
    min(min(m[row - 1][col] + 1,
            m[row][col - 1] + 1),
        m[row - 1][col - 1]
            + (IF graphemes1[row] # graphemes2[col] THEN 0 ELSE sub_cost))

recurrence_cell(m, row, col, graphemes1, graphemes2, sub_cost) ==
    min(min(m[row - 1][col] + 1,
            m[row][col - 1] + 1),
        m[row - 1][col - 1]
            + (IF graphemes1[row] = graphemes2[col] THEN 0 ELSE sub_cost))

RECURSIVE fill_recurrence_matrix(_, _, _, _, _, _)
fill_recurrence_matrix(m, cells, k, graphemes1, graphemes2, sub_cost) ==
    IF k > Len(cells) THEN m
    ELSE LET row == cells[k][1]
             col == cells[k][2]
             v   == recurrence_cell(m, row, col, graphemes1, graphemes2, sub_cost)
         IN  fill_recurrence_matrix([m EXCEPT ![row][col] = v], cells, k + 1,
                                    graphemes1, graphemes2, sub_cost)

levenshtein_distance_recurrence_matrix(graphemes1, graphemes2, sub_cost) ==
    LET num_rows == Len(graphemes1) + 1
        num_cols == Len(graphemes2) + 1
    IN  fill_recurrence_matrix(border_matrix(num_rows, num_cols),
                               cartesian_product(num_rows, num_cols), 1,
                               graphemes1, graphemes2, sub_cost)

levenshtein_distance(graphemes1, graphemes2, sub_cost) ==
    levenshtein_distance_recurrence_matrix(graphemes1, graphemes2, sub_cost)
        [Len(graphemes1)][Len(graphemes2)]

(***************************************************************************)
(* lib.rs alignment_matrix: the same matrix, with the backtrace map from   *)
(* each filled coordinate to the predecessor that produced its minimum.    *)
(* HashMap::insert is map_insert; the map is a function on coordinates.    *)
(***************************************************************************)
map_insert(map, key, value) ==
    [k \in DOMAIN map \cup {key} |-> IF k = key THEN value ELSE map[k]]

empty_map == [k \in {} |-> <<0, 0>>]

RECURSIVE border_backtrace_rows(_, _, _)
border_backtrace_rows(backtrace, row, num_rows) ==
    IF row >= num_rows THEN backtrace
    ELSE border_backtrace_rows(map_insert(backtrace, <<row, 0>>, <<row - 1, 0>>),
                               row + 1, num_rows)

RECURSIVE border_backtrace_cols(_, _, _)
border_backtrace_cols(backtrace, col, num_cols) ==
    IF col >= num_cols THEN backtrace
    ELSE border_backtrace_cols(map_insert(backtrace, <<0, col>>, <<0, col - 1>>),
                               col + 1, num_cols)

alignment_cell_always_sub(m, row, col, graphemes1, graphemes2, sub_cost) ==
    LET ins == [min_distance |-> m[row][col - 1] + 1,
                min_coordinate |-> <<row, col - 1>>]
        current_del_cost == m[row - 1][col] + 1
        del == IF current_del_cost < ins.min_distance
               THEN [min_distance |-> current_del_cost,
                     min_coordinate |-> <<row - 1, col>>]
               ELSE ins
        current_sub_cost == m[row - 1][col - 1] + sub_cost
    IN  IF current_sub_cost < del.min_distance
        THEN [min_distance |-> current_sub_cost,
              min_coordinate |-> <<row - 1, col - 1>>]
        ELSE del

alignment_cell_diagonal_first(m, row, col, graphemes1, graphemes2, sub_cost) ==
    LET sub == [min_distance |->
                    m[row - 1][col - 1]
                        + (IF graphemes1[row] = graphemes2[col] THEN 0 ELSE sub_cost),
                min_coordinate |-> <<row - 1, col - 1>>]
        current_del_cost == m[row - 1][col] + 1
        del == IF current_del_cost < sub.min_distance
               THEN [min_distance |-> current_del_cost,
                     min_coordinate |-> <<row - 1, col>>]
               ELSE sub
        current_ins_cost == m[row][col - 1] + 1
    IN  IF current_ins_cost < del.min_distance
        THEN [min_distance |-> current_ins_cost,
              min_coordinate |-> <<row, col - 1>>]
        ELSE del

alignment_cell(m, row, col, graphemes1, graphemes2, sub_cost) ==
    LET ins == [min_distance |-> m[row][col - 1] + 1,
                min_coordinate |-> <<row, col - 1>>]
        current_del_cost == m[row - 1][col] + 1
        del == IF current_del_cost < ins.min_distance
               THEN [min_distance |-> current_del_cost,
                     min_coordinate |-> <<row - 1, col>>]
               ELSE ins
        current_sub_cost ==
            m[row - 1][col - 1]
                + (IF graphemes1[row] = graphemes2[col] THEN 0 ELSE sub_cost)
    IN  IF current_sub_cost < del.min_distance
        THEN [min_distance |-> current_sub_cost,
              min_coordinate |-> <<row - 1, col - 1>>]
        ELSE del

RECURSIVE fill_alignment_matrix(_, _, _, _, _, _, _)
fill_alignment_matrix(m, backtrace, cells, k, graphemes1, graphemes2, sub_cost) ==
    IF k > Len(cells) THEN backtrace
    ELSE LET row == cells[k][1]
             col == cells[k][2]
             c   == alignment_cell(m, row, col, graphemes1, graphemes2, sub_cost)
         IN  fill_alignment_matrix([m EXCEPT ![row][col] = c.min_distance],
                                   map_insert(backtrace, <<row, col>>, c.min_coordinate),
                                   cells, k + 1, graphemes1, graphemes2, sub_cost)

alignment_matrix(graphemes1, graphemes2, sub_cost) ==
    LET num_rows == Len(graphemes1) + 1
        num_cols == Len(graphemes2) + 1
    IN  fill_alignment_matrix(
            border_matrix(num_rows, num_cols),
            border_backtrace_cols(border_backtrace_rows(empty_map, 1, num_rows),
                                  1, num_cols),
            cartesian_product(num_rows, num_cols), 1,
            graphemes1, graphemes2, sub_cost)

(***************************************************************************)
(* lib.rs backtrace_alignment_matrix: follow the map from start_coord      *)
(* while it has an entry, pushing each coordinate, then push the last one. *)
(***************************************************************************)
RECURSIVE backtrace_loop_no_last(_, _, _)
backtrace_loop_no_last(path, backtracing_coord, backtrace) ==
    IF backtracing_coord \in DOMAIN backtrace
    THEN backtrace_loop_no_last(Append(path, backtracing_coord),
                                backtrace[backtracing_coord], backtrace)
    ELSE path

RECURSIVE backtrace_loop(_, _, _)
backtrace_loop(path, backtracing_coord, backtrace) ==
    IF backtracing_coord \in DOMAIN backtrace
    THEN backtrace_loop(Append(path, backtracing_coord),
                        backtrace[backtracing_coord], backtrace)
    ELSE Append(path, backtracing_coord)

backtrace_alignment_matrix(start_coord, backtrace) ==
    backtrace_loop(<<>>, start_coord, backtrace)

alignment_path_unreversed(graphemes1, graphemes2, sub_cost) ==
    backtrace_alignment_matrix(<<Len(graphemes1), Len(graphemes2)>>,
                               alignment_matrix(graphemes1, graphemes2, sub_cost))

alignment_path(graphemes1, graphemes2, sub_cost) ==
    LET mat == alignment_matrix(graphemes1, graphemes2, sub_cost)
    IN  reverse(backtrace_alignment_matrix(<<Len(graphemes1), Len(graphemes2)>>, mat))

(***************************************************************************)
(* lib.rs alignment_strings.  The result records whether the call panicked *)
(* (the panic!() branch, or an index out of the sequence's bounds) and the *)
(* two aligned sequences built so far.                                     *)
(***************************************************************************)
align_step(acc, prev_coord, coord, graphemes1, graphemes2, ins_del_char) ==
    LET row == coord[1]
        col == coord[2]
        oob1 == row - 1 >= Len(graphemes1)
        oob2 == col - 1 >= Len(graphemes2)
        panic == [acc EXCEPT !.panicked = TRUE]
    IN  IF row # 0 /\ row - 1 = prev_coord[1] /\ col # 0 /\ col - 1 = prev_coord[2]
        THEN IF oob1 \/ oob2 THEN panic
             ELSE [acc EXCEPT !.align_graphemes1 = Append(@, graphemes1[row]),
                              !.align_graphemes2 = Append(@, graphemes2[col])]
        ELSE IF row = prev_coord[1] /\ col # 0 /\ col - 1 = prev_coord[2]
        THEN IF oob2 THEN panic
             ELSE [acc EXCEPT !.align_graphemes1 = Append(@, ins_del_char),
                              !.align_graphemes2 = Append(@, graphemes2[col])]
        ELSE IF row # 0 /\ row - 1 = prev_coord[1] /\ col = prev_coord[2]
        THEN IF oob1 THEN panic
             ELSE [acc EXCEPT !.align_graphemes1 = Append(@, graphemes1[row]),
                              !.align_graphemes2 = Append(@, ins_del_char)]
        ELSE panic

RECURSIVE align_loop(_, _, _, _, _, _)
align_loop(acc, path, k, graphemes1, graphemes2, ins_del_char) ==
    IF k > Len(path) \/ acc.panicked THEN acc
    ELSE align_loop(align_step(acc, path[k - 1], path[k],
                               graphemes1, graphemes2, ins_del_char),
                    path, k + 1, graphemes1, graphemes2, ins_del_char)

alignment_strings(graphemes1, graphemes2, sub_cost, ins_del_char) ==
    LET path == alignment_path(graphemes1, graphemes2, sub_cost)
        start == [panicked |-> FALSE, early_return |-> FALSE,
                  align_graphemes1 |-> <<>>, align_graphemes2 |-> <<>>]
    IN  IF path = <<>>
        THEN [start EXCEPT !.early_return = TRUE]
        ELSE align_loop(start, path, 2, graphemes1, graphemes2, ins_del_char)

(***************************************************************************)
(* lib.rs max_match.  A dictionary is a set of grapheme sequences.         *)
(* max_match_found is the body of the loop's if (a dictionary prefix of    *)
(* length i), max_match_fallback the code after the loop, max_match_loop   *)
(* the loop for i in (1..sentence.len()+1).rev().                          *)
(***************************************************************************)
slice(graphemes, start, end) == SubSeq(graphemes, start + 1, end)

RECURSIVE max_match(_, _)
RECURSIVE max_match_loop(_, _, _)
RECURSIVE max_match_loop_shortest(_, _, _)

max_match_found(sentence, dictionary, i) ==
    LET first_word == slice(sentence, 0, i)
        remainder  == slice(sentence, i, Len(sentence))
        pushed     == IF remainder # <<>> THEN Append(first_word, Space) ELSE first_word
    IN  pushed \o max_match(remainder, dictionary)

max_match_fallback_skip(sentence, dictionary) ==
    LET first_word == slice(sentence, 0, 1)
        remainder  == slice(sentence, min(2, Len(sentence)), Len(sentence))
        pushed     == IF remainder # <<>> THEN Append(first_word, Space) ELSE first_word
    IN  pushed \o max_match(remainder, dictionary)

max_match_fallback(sentence, dictionary) ==
    LET first_word == slice(sentence, 0, 1)
        remainder  == slice(sentence, 1, Len(sentence))
        pushed     == IF remainder # <<>> THEN Append(first_word, Space) ELSE first_word
    IN  pushed \o max_match(remainder, dictionary)

max_match_loop_shortest(sentence, dictionary, i) ==
    LET j == Len(sentence) + 1 - i
    IN  IF i < 1 THEN max_match_fallback(sentence, dictionary)
        ELSE IF slice(sentence, 0, j) \in dictionary
        THEN max_match_found(sentence, dictionary, j)
        ELSE max_match_loop_shortest(sentence, dictionary, i - 1)

max_match_loop(sentence, dictionary, i) ==
    IF i < 1 THEN max_match_fallback(sentence, dictionary)
    ELSE IF slice(sentence, 0, i) \in dictionary
    THEN max_match_found(sentence, dictionary, i)
    ELSE max_match_loop(sentence, dictionary, i - 1)

max_match(sentence, dictionary) ==
    IF sentence = <<>> THEN <<>>
    ELSE max_match_loop(sentence, dictionary, Len(sentence))

(***************************************************************************)
(* The recursion of max_match.  An invocation on a non-empty sentence      *)
(* makes one recursive call, in the loop's if or after the loop, and       *)
(* max_match_recursive_call is its argument (the remainder).               *)
(* max_match_calls is the chain of sentences of the nested invocations;    *)
(* fuel cuts the chain, so that a recursion that does not end still gives  *)
(* a finite chain (one that does not end with the empty sentence).         *)
(***************************************************************************)
RECURSIVE max_match_remainder_loop_from_zero(_, _, _)
max_match_remainder_loop_from_zero(sentence, dictionary, i) ==
    IF i < 0 THEN slice(sentence, 1, Len(sentence))
    ELSE IF slice(sentence, 0, i) \in dictionary
    THEN slice(sentence, i, Len(sentence))
    ELSE max_match_remainder_loop_from_zero(sentence, dictionary, i - 1)

RECURSIVE max_match_remainder_loop(_, _, _)
max_match_remainder_loop(sentence, dictionary, i) ==
    IF i < 1 THEN slice(sentence, 1, Len(sentence))
    ELSE IF slice(sentence, 0, i) \in dictionary
    THEN slice(sentence, i, Len(sentence))
    ELSE max_match_remainder_loop(sentence, dictionary, i - 1)

max_match_recursive_call(sentence, dictionary) ==
    max_match_remainder_loop(sentence, dictionary, Len(sentence))

RECURSIVE max_match_calls(_, _, _)
max_match_calls(sentence, dictionary, fuel) ==
    IF sentence = <<>> \/ fuel = 0 THEN <<sentence>>
    ELSE <<sentence>>
         \o max_match_calls(max_match_recursive_call(sentence, dictionary),
                            dictionary, fuel - 1)

(***************************************************************************)
(* graphemes_struct.rs Graphemes::split: the slice's split on the elements *)
(* equal to the splitter.  The delimiters are consumed; n delimiters give  *)
(* n + 1 pieces, so the empty sequence gives one empty piece.              *)
(***************************************************************************)
RECURSIVE split_from(_, _, _, _)
split_from(graphemes, splitter, k, piece) ==
    IF k > Len(graphemes) THEN <<piece>>
    ELSE IF graphemes[k] = splitter
    THEN <<piece>> \o split_from(graphemes, splitter, k + 1, <<>>)
    ELSE split_from(graphemes, splitter, k + 1, Append(piece, graphemes[k]))

split_skip_empty(graphemes, splitter) ==
    SelectSeq(split_from(graphemes, splitter, 1, <<>>), LAMBDA piece : piece # <<>>)

split(graphemes, splitter) == split_from(graphemes, splitter, 1, <<>>)

(***************************************************************************)
(* metrics.rs: its own copy of levenshtein_distance and of the recurrence  *)
(* matrix, and word_error_rate.  The f64 quotient of two usize values is   *)
(* kept as the pair (numerator, denominator).                              *)
(***************************************************************************)
metrics_recurrence_cell_inverted(m, row, col, graphemes1, graphemes2, sub_cost) ==
    min(min(m[row - 1][col] + 1,
            m[row][col - 1] + 1),
        m[row - 1][col - 1]
            + (IF graphemes1[row] # graphemes2[col] THEN 0 ELSE sub_cost))

metrics_recurrence_cell(m, row, col, graphemes1, graphemes2, sub_cost) ==
    min(min(m[row - 1][col] + 1,
            m[row][col - 1] + 1),
        m[row - 1][col - 1]
            + (IF graphemes1[row] = graphemes2[col] THEN 0 ELSE sub_cost))

RECURSIVE metrics_fill_recurrence_matrix(_, _, _, _, _, _)
metrics_fill_recurrence_matrix(m, cells, k, graphemes1, graphemes2, sub_cost) ==
    IF k > Len(cells) THEN m
    ELSE LET row == cells[k][1]
             col == cells[k][2]
             v   == metrics_recurrence_cell(m, row, col, graphemes1, graphemes2, sub_cost)
         IN  metrics_fill_recurrence_matrix([m EXCEPT ![row][col] = v], cells, k + 1,
                                            graphemes1, graphemes2, sub_cost)

metrics_levenshtein_distance_recurrence_matrix(graphemes1, graphemes2, sub_cost) ==
    LET num_rows == Len(graphemes1) + 1
        num_cols == Len(graphemes2) + 1
    IN  metrics_fill_recurrence_matrix(border_matrix(num_rows, num_cols),
                                       cartesian_product(num_rows, num_cols), 1,
                                       graphemes1, graphemes2, sub_cost)

metrics_levenshtein_distance(graphemes1, graphemes2, sub_cost) ==
    metrics_levenshtein_distance_recurrence_matrix(graphemes1, graphemes2, sub_cost)
        [Len(graphemes1)][Len(graphemes2)]

f64_div(numerator, denominator) == [num |-> numerator, den |-> denominator]

word_error_rate(actual_sentence, predict_sentence) ==
    LET actual_split_sentence == split(actual_sentence, Space)
        lev_distance == metrics_levenshtein_distance(actual_split_sentence,
                                                     split(predict_sentence, Space), 1)
    IN  f64_div(lev_distance, Len(actual_split_sentence))

(***************************************************************************)
(* The calls: function name and arguments.                                 *)
(***************************************************************************)
LevCalls ==
    [graphemes1 : LetterSeqs, graphemes2 : LetterSeqs, sub_cost : SubCosts]

AlignCalls ==
    [graphemes1 : LetterSeqs, graphemes2 : LetterSeqs, sub_cost : SubCosts,
     ins_del_char : Placeholders]

MaxMatchCalls == [sentence : Sentences, dictionary : Dictionaries]

WordErrorRateCalls == [actual_sentence : Sentences, predict_sentence : Sentences]

NoRet == [none |-> TRUE]

Init ==
    /\ pc = "call"
    /\ ret = NoRet
    /\ \/ fn = "levenshtein_distance" /\ args \in LevCalls
       \/ fn = "alignment_path" /\ args \in LevCalls
       \/ fn = "alignment_strings" /\ args \in AlignCalls
       \/ fn = "metrics::levenshtein_distance" /\ args \in LevCalls
       \/ fn = "max_match" /\ args \in MaxMatchCalls
       \/ fn = "word_error_rate" /\ args \in WordErrorRateCalls

CallLevenshteinDistance ==
    /\ pc = "call"
    /\ fn = "levenshtein_distance"
    /\ ret' = levenshtein_distance(args.graphemes1, args.graphemes2, args.sub_cost)
    /\ pc' = "done"
    /\ UNCHANGED <<fn, args>>

CallAlignmentPath ==
    /\ pc = "call"
    /\ fn = "alignment_path"
    /\ ret' = alignment_path(args.graphemes1, args.graphemes2, args.sub_cost)
    /\ pc' = "done"
    /\ UNCHANGED <<fn, args>>

CallAlignmentStrings ==
    /\ pc = "call"
    /\ fn = "alignment_strings"
    /\ ret' = alignment_strings(args.graphemes1, args.graphemes2, args.sub_cost,
                                args.ins_del_char)
    /\ pc' = "done"
    /\ UNCHANGED <<fn, args>>

CallMetricsLevenshteinDistance ==
    /\ pc = "call"
    /\ fn = "metrics::levenshtein_distance"
    /\ ret' = metrics_levenshtein_distance(args.graphemes1, args.graphemes2,
                                           args.sub_cost)
    /\ pc' = "done"
    /\ UNCHANGED <<fn, args>>

CallMaxMatch ==
    /\ pc = "call"
    /\ fn = "max_match"
    /\ ret' = max_match(args.sentence, args.dictionary)
    /\ pc' = "done"
    /\ UNCHANGED <<fn, args>>

CallWordErrorRate ==
    /\ pc = "call"
    /\ fn = "word_error_rate"
    /\ ret' = word_error_rate(args.actual_sentence, args.predict_sentence)
    /\ pc' = "done"
    /\ UNCHANGED <<fn, args>>

Next ==
    \/ CallLevenshteinDistance
    \/ CallMetricsLevenshteinDistance
    \/ CallMaxMatch
    \/ CallWordErrorRate
    \/ CallAlignmentPath
    \/ CallAlignmentStrings

Spec == Init /\ [][Next]_vars

(***************************************************************************)
(* Edit scripts, for the statement of the distance contract.  A script is  *)
(* a sequence of operations; "del" consumes one element of S1, "ins" one   *)
(* element of S2, "sub" one of each (a match when they are equal).         *)
(* EditScripts[m, n] is every script that consumes exactly m and n.        *)
(***************************************************************************)
EditScripts[m \in 0..MaxLen, n \in 0..MaxLen] ==
    IF m = 0 /\ n = 0 THEN {<<>>}
    ELSE (IF m > 0 THEN {<<"del">> \o s : s \in EditScripts[m - 1, n]} ELSE {})
         \cup (IF n > 0 THEN {<<"ins">> \o s : s \in EditScripts[m, n - 1]} ELSE {})
         \cup (IF m > 0 /\ n > 0
               THEN {<<"sub">> \o s : s \in EditScripts[m - 1, n - 1]} ELSE {})

RECURSIVE ScriptCost(_, _, _, _, _, _)
ScriptCost(script, k, i, j, S, C) ==
    IF k > Len(script) THEN 0
    ELSE IF script[k] = "del" THEN 1 + ScriptCost(script, k + 1, i + 1, j, S, C)
    ELSE IF script[k] = "ins" THEN 1 + ScriptCost(script, k + 1, i, j + 1, S, C)
    ELSE (IF S[1][i] = S[2][j] THEN 0 ELSE C)
         + ScriptCost(script, k + 1, i + 1, j + 1, S, C)

SetMin(S) == CHOOSE x \in S : \A y \in S : x <= y

MinScriptCost(S1, S2, C) ==
    SetMin({ScriptCost(script, 1, 1, 1, <<S1, S2>>, C)
              : script \in EditScripts[Len(S1), Len(S2)]})

Done(f) == pc = "done" /\ fn = f

(* C1: levenshtein_distance(S1, S2, C) is the minimum total cost over all  *)
(* edit scripts transforming S1 into S2 with unit insertion, unit deletion *)
(* and cost-C substitution (0 when the elements are equal).                *)
(* The claim is checked for lib.rs's function and for metrics.rs's copy.    *)
C1_DistanceIsMinimumScriptCost ==
    (Done("levenshtein_distance") \/ Done("metrics::levenshtein_distance")) =>
        ret = MinScriptCost(args.graphemes1, args.graphemes2, args.sub_cost)

C1_Witness ==
    /\ Done("levenshtein_distance")
    /\ args.graphemes1 = <<"a", "b", "a">>
    /\ args.graphemes2 = <<"b", "b">>
    /\ args.sub_cost = 3
    /\ ret = 3

(* C6: levenshtein_distance is symmetric in its two sequences.             *)
C6_Symmetric ==
    Done("levenshtein_distance") =>
        ret = levenshtein_distance(args.graphemes2, args.graphemes1, args.sub_cost)

C6_Witness ==
    /\ Done("levenshtein_distance")
    /\ args.graphemes1 = <<"a", "b">>
    /\ args.graphemes2 = <<"b", "a", "a">>
    /\ ret = levenshtein_distance(<<"b", "a", "a">>, <<"a", "b">>, args.sub_cost)
    /\ ret = 2

(* C7: the distance of a sequence to itself is 0, and the distance between *)
(* the empty sequence and A, in either argument order, is the length of A. *)
C7_IdentityAndEmpty ==
    Done("levenshtein_distance") =>
        /\ (args.graphemes1 = args.graphemes2 => ret = 0)
        /\ (args.graphemes1 = <<>> => ret = Len(args.graphemes2))
        /\ (args.graphemes2 = <<>> => ret = Len(args.graphemes1))

C7_Witness ==
    /\ Done("levenshtein_distance")
    /\ args.graphemes1 = <<>>
    /\ args.graphemes2 = <<"a", "a", "a">>
    /\ args.sub_cost = 1
    /\ ret = 3

C7_WitnessSelf ==
    /\ Done("levenshtein_distance")
    /\ args.graphemes1 = <<"a", "b", "a">>
    /\ args.graphemes2 = args.graphemes1
    /\ args.sub_cost = 3
    /\ ret = 0

(* C8: triangle inequality, one substitution cost in all three calls:      *)
(* distance(A, C) <= distance(A, B) + distance(B, C).                      *)
C8_Triangle ==
    Done("levenshtein_distance") =>
        \A B \in LetterSeqs :
            ret <= levenshtein_distance(args.graphemes1, B, args.sub_cost)
                   + levenshtein_distance(B, args.graphemes2, args.sub_cost)

C8_Witness ==
    /\ Done("levenshtein_distance")
    /\ args.graphemes1 = <<"a", "a">>
    /\ args.graphemes2 = <<"b", "b">>
    /\ args.sub_cost = 1
    /\ ret = 2
    /\ levenshtein_distance(<<"a", "a">>, <<"a", "b">>, 1)
       + levenshtein_distance(<<"a", "b">>, <<"b", "b">>, 1) = 2

(***************************************************************************)
(* The edit distance read off an alignment: 1 for a position where either  *)
(* side is the placeholder, sub_cost for any other position whose two      *)
(* elements differ.  The helper calculate_edit_distance_from_alignment of  *)
(* the tests computes this with the placeholder " ".                       *)
(***************************************************************************)
Range(s) == {s[k] : k \in 1..Len(s)}

AlignmentEditDistance(alignments, sub_cost, ins_del_char) ==
    LET a1 == alignments.align_graphemes1
        a2 == alignments.align_graphemes2
        gaps == {i \in 1..Len(a1) : a1[i] = ins_del_char \/ a2[i] = ins_del_char}
        subs == {i \in (1..Len(a1)) \ gaps : a1[i] # a2[i]}
    IN  Cardinality(gaps) + sub_cost * Cardinality(subs)

(* C2 as stated: for all A, B, subCost and placeholder, the placeholder    *)
(* positions plus subCost times the other mismatching positions of the     *)
(* alignment equal levenshtein_distance(A, B, subCost).                    *)
C2_AlignmentCostEqualsDistance_AsStated ==
    Done("alignment_strings") =>
        /\ ~ret.panicked
        /\ Len(ret.align_graphemes1) = Len(ret.align_graphemes2)
        /\ AlignmentEditDistance(ret, args.sub_cost, args.ins_del_char)
           = levenshtein_distance(args.graphemes1, args.graphemes2, args.sub_cost)

(* C2 amended: the same equality for all A, B that do not contain the      *)
(* placeholder element.                                                    *)
C2_AlignmentCostEqualsDistance ==
    (/\ Done("alignment_strings")
     /\ args.ins_del_char \notin Range(args.graphemes1) \cup Range(args.graphemes2))
    => /\ ~ret.panicked
       /\ Len(ret.align_graphemes1) = Len(ret.align_graphemes2)
       /\ AlignmentEditDistance(ret, args.sub_cost, args.ins_del_char)
          = levenshtein_distance(args.graphemes1, args.graphemes2, args.sub_cost)

C2_Witness ==
    /\ Done("alignment_strings")
    /\ args.graphemes1 = <<"a", "b", "a">>
    /\ args.graphemes2 = <<"b", "b">>
    /\ args.sub_cost = 3
    /\ args.ins_del_char = Space
    /\ ~ret.panicked
    /\ AlignmentEditDistance(ret, 3, Space) = 3

(***************************************************************************)
(* C9: the positions of the alignment are the steps of the alignment path. *)
(* Step k is an insertion when the row does not advance (the placeholder   *)
(* is emitted on side 1) and a deletion when the column does not advance   *)
(* (the placeholder is emitted on side 2).                                 *)
(***************************************************************************)
RECURSIVE Skip(_, _, _)
Skip(s, positions, k) ==
    IF k > Len(s) THEN <<>>
    ELSE (IF k \in positions THEN <<>> ELSE <<s[k]>>) \o Skip(s, positions, k + 1)

InsertionSteps(path) == {k \in 1..(Len(path) - 1) : path[k + 1][1] = path[k][1]}

DeletionSteps(path) == {k \in 1..(Len(path) - 1) : path[k + 1][2] = path[k][2]}

(* C9: alignment_strings returns two sequences of equal length, and        *)
(* skipping the positions where the placeholder was emitted for an         *)
(* insertion (side 1) or deletion (side 2) step leaves exactly S1 and S2.  *)
C9_ValidAlignment ==
    Done("alignment_strings") =>
        LET path == alignment_path(args.graphemes1, args.graphemes2, args.sub_cost)
            a1 == ret.align_graphemes1
            a2 == ret.align_graphemes2
        IN  /\ ~ret.panicked
            /\ Len(a1) = Len(a2)
            /\ Len(a1) = Len(path) - 1
            /\ \A k \in InsertionSteps(path) : a1[k] = args.ins_del_char
            /\ \A k \in DeletionSteps(path) : a2[k] = args.ins_del_char
            /\ Skip(a1, InsertionSteps(path), 1) = args.graphemes1
            /\ Skip(a2, DeletionSteps(path), 1) = args.graphemes2

C9_Witness ==
    /\ Done("alignment_strings")
    /\ args.graphemes1 = <<"a", "b">>
    /\ args.graphemes2 = <<"b", "a", "b">>
    /\ args.sub_cost = 1
    /\ args.ins_del_char = "a"
    /\ ~ret.panicked
    /\ Len(ret.align_graphemes1) = 3
    /\ \E k \in 1..3 : ret.align_graphemes1[k] = "a" /\ k \in
          InsertionSteps(alignment_path(<<"a", "b">>, <<"b", "a", "b">>, 1))

(***************************************************************************)
(* Statements about max_match.                                             *)
(***************************************************************************)
RemoveSpaces(graphemes) == SelectSeq(graphemes, LAMBDA g : g # Space)

(* C3 as stated: for every input and dictionary, removing all spaces from  *)
(* max_match(sentence, dictionary) reproduces the input exactly.           *)
C3_ContentPreserved_AsStated ==
    Done("max_match") => RemoveSpaces(ret) = args.sentence

(* C3 amended: for every input that contains no space element, removing    *)
(* all spaces from max_match(sentence, dictionary) reproduces the input.   *)
C3_ContentPreserved ==
    (Done("max_match") /\ Space \notin Range(args.sentence))
        => RemoveSpaces(ret) = args.sentence

C3_Witness ==
    /\ Done("max_match")
    /\ args.sentence = <<"a", "b", "a">>
    /\ args.dictionary = {<<"a", "b">>}
    /\ ret = <<"a", "b", Space, "a">>

(***************************************************************************)
(* The tokens of an output are the pieces of its split on the space; the   *)
(* empty output has no token.                                              *)
(***************************************************************************)
Tokens(out) == IF out = <<>> THEN <<>> ELSE split(out, Space)

AllTokensInDictionary(out, dictionary) ==
    \A k \in 1..Len(Tokens(out)) : Tokens(out)[k] \in dictionary

(* C4 as stated: if every token of out = max_match(sentence, dictionary)   *)
(* is a dictionary word, then max_match(out, dictionary) = out.            *)
C4_Idempotent_AsStated ==
    (Done("max_match") /\ AllTokensInDictionary(ret, args.dictionary))
        => max_match(ret, args.dictionary) = ret

(* C4 amended: if every token of out is a dictionary word, re-segmenting   *)
(* out only adds space elements (out and max_match(out, dictionary) are    *)
(* equal once spaces are removed), and max_match(out, dictionary) = out    *)
(* when out is a single token, i.e. contains no space.                     *)
C4_IdempotentUpToSpaces ==
    (Done("max_match") /\ AllTokensInDictionary(ret, args.dictionary))
        => /\ RemoveSpaces(max_match(ret, args.dictionary)) = RemoveSpaces(ret)
           /\ Len(Tokens(ret)) <= 1 => max_match(ret, args.dictionary) = ret

C4_Witness ==
    /\ Done("max_match")
    /\ args.sentence = <<"a", "b">>
    /\ args.dictionary = {<<"a">>, <<"b">>}
    /\ ret = <<"a", Space, "b">>
    /\ AllTokensInDictionary(ret, args.dictionary)
    /\ max_match(ret, args.dictionary) = <<"a", Space, Space, Space, "b">>

C4_WitnessSingleToken ==
    /\ Done("max_match")
    /\ args.sentence = <<"a", "b">>
    /\ args.dictionary = {<<"a">>, <<"a", "b">>}
    /\ ret = <<"a", "b">>
    /\ AllTokensInDictionary(ret, args.dictionary)

(***************************************************************************)
(* Greedy longest-first segmentation, stated without the loop: the set of  *)
(* prefix lengths that are dictionary members and its maximum.             *)
(***************************************************************************)
SetMax(S) == CHOOSE x \in S : \A y \in S : y <= x

DictionaryPrefixLengths(sentence, dictionary) ==
    {i \in 1..Len(sentence) : SubSeq(sentence, 1, i) \in dictionary}

NoMatchAnywhere(sentence, dictionary) ==
    \A i \in 1..Len(sentence) : \A j \in i..Len(sentence) :
        SubSeq(sentence, i, j) \notin dictionary

JoinedBySpaces(sentence) ==
    [k \in 1..(2 * Len(sentence) - 1) |->
        IF k % 2 = 1 THEN sentence[(k + 1) \div 2] ELSE Space]

(* C5: the first token is the longest prefix that is a dictionary member,  *)
(* or the first grapheme when no prefix is; the rest is max_match of the   *)
(* remaining suffix, joined by one space when the suffix is non-empty and  *)
(* by nothing when it is empty; the empty sentence gives the empty output; *)
(* a sentence with no dictionary match at any position comes out as its    *)
(* graphemes joined by single spaces.                                      *)
C5_GreedyLongestFirst ==
    Done("max_match") =>
        LET sentence == args.sentence
            lengths  == DictionaryPrefixLengths(sentence, args.dictionary)
            n        == IF lengths = {} THEN 1 ELSE SetMax(lengths)
            suffix   == SubSeq(sentence, n + 1, Len(sentence))
        IN  IF sentence = <<>> THEN ret = <<>>
            ELSE /\ ret = SubSeq(sentence, 1, n)
                          \o (IF suffix = <<>> THEN <<>> ELSE <<Space>>)
                          \o max_match(suffix, args.dictionary)
                 /\ NoMatchAnywhere(sentence, args.dictionary)
                        => ret = JoinedBySpaces(sentence)

C5_Witness ==
    /\ Done("max_match")
    /\ args.sentence = <<"a", "b", "a">>
    /\ args.dictionary = {<<"a">>, <<"a", "b">>}
    /\ ret = <<"a", "b", Space, "a">>

C5_WitnessNoMatch ==
    /\ Done("max_match")
    /\ args.sentence = <<"b", "b", "b">>
    /\ args.dictionary = {<<"a">>}
    /\ ret = <<"b", Space, "b", Space, "b">>

(***************************************************************************)
(* Statements about word_error_rate.                                       *)
(***************************************************************************)
(* C10: word_error_rate(actual, actual) is 0.0 for every non-empty actual: *)
(* the two splits are equal word sequences, their distance is 0 and the    *)
(* divisor, the word count of actual, is at least 1.                       *)
C10_SelfErrorRateIsZero ==
    (/\ Done("word_error_rate")
     /\ args.actual_sentence = args.predict_sentence
     /\ args.actual_sentence # <<>>)
    => /\ ret.num = 0
       /\ ret.den >= 1
       /\ ret.den = Len(split(args.actual_sentence, Space))

C10_Witness ==
    /\ Done("word_error_rate")
    /\ args.actual_sentence = <<"a", Space, "b">>
    /\ args.predict_sentence = <<"a", Space, "b">>
    /\ ret = [num |-> 0, den |-> 2]

(* C11 as stated: when actual is the empty sequence, the word count of     *)
(* actual used as the divisor is 0, so word_error_rate divides by zero.    *)
C11_EmptyActualDividesByZero_AsStated ==
    (Done("word_error_rate") /\ args.actual_sentence = <<>>)
        => /\ Len(split(args.actual_sentence, Space)) = 0
           /\ ret.den = 0

(* C11 amended: when actual is the empty sequence, splitting it on the     *)
(* space yields one (empty) word, so the divisor is 1 and word_error_rate  *)
(* does not divide by zero; the quotient is the distance itself.  The      *)
(* divisor is at least 1 for every actual.                                 *)
C11_EmptyActualDivisorIsOne ==
    Done("word_error_rate") =>
        /\ ret.den = Len(split(args.actual_sentence, Space))
        /\ ret.den >= 1
        /\ args.actual_sentence = <<>> =>
              /\ split(args.actual_sentence, Space) = << <<>> >>
              /\ ret.den = 1
              /\ ret.num = metrics_levenshtein_distance(
                               << <<>> >>, split(args.predict_sentence, Space), 1)

C11_Witness ==
    /\ Done("word_error_rate")
    /\ args.actual_sentence = <<>>
    /\ args.predict_sentence = <<"a", Space, "b">>
    /\ ret = [num |-> 2, den |-> 1]

(***************************************************************************)
(* Statements about the backtrace map and the alignment path.              *)
(***************************************************************************)
SubstitutionCost(graphemes1, graphemes2, row, col, sub_cost) ==
    IF graphemes1[row] = graphemes2[col] THEN 0 ELSE sub_cost

(* The predecessor the tie-break rule prescribes for an interior cell of   *)
(* the cost matrix m: left if it achieves the cell's cost, else above if   *)
(* it does, else the diagonal.                                             *)
PrescribedPredecessor(m, graphemes1, graphemes2, row, col, sub_cost) ==
    IF m[row][col - 1] + 1 = m[row][col] THEN <<row, col - 1>>
    ELSE IF m[row - 1][col] + 1 = m[row][col] THEN <<row - 1, col>>
    ELSE <<row - 1, col - 1>>

PredecessorCost(m, graphemes1, graphemes2, row, col, sub_cost, pred) ==
    IF pred = <<row, col - 1>> THEN m[row][col - 1] + 1
    ELSE IF pred = <<row - 1, col>> THEN m[row - 1][col] + 1
    ELSE m[row - 1][col - 1]
         + SubstitutionCost(graphemes1, graphemes2, row, col, sub_cost)

(* C12: in alignment_matrix the predecessor recorded for every interior    *)
(* cell achieves the cell's minimum cost and is chosen among equal-cost    *)
(* candidates in the order left, above, diagonal; border cells point to    *)
(* the adjacent border cell; the origin has no predecessor; and            *)
(* alignment_path("dog", "woof", 1) is [(0,0),(1,1),(2,2),(3,3),(3,4)].    *)
C12_TieBreakLeftAboveDiagonal ==
    Done("alignment_path") =>
        LET g1 == args.graphemes1
            g2 == args.graphemes2
            m  == levenshtein_distance_recurrence_matrix(g1, g2, args.sub_cost)
            backtrace == alignment_matrix(g1, g2, args.sub_cost)
        IN  /\ DOMAIN backtrace
                 = ((0..Len(g1)) \X (0..Len(g2))) \ {<<0, 0>>}
            /\ \A row \in 1..Len(g1) : backtrace[<<row, 0>>] = <<row - 1, 0>>
            /\ \A col \in 1..Len(g2) : backtrace[<<0, col>>] = <<0, col - 1>>
            /\ \A row \in 1..Len(g1) : \A col \in 1..Len(g2) :
                  /\ backtrace[<<row, col>>]
                       = PrescribedPredecessor(m, g1, g2, row, col, args.sub_cost)
                  /\ PredecessorCost(m, g1, g2, row, col, args.sub_cost,
                                     backtrace[<<row, col>>]) = m[row][col]
            /\ alignment_path(<<"d", "o", "g">>, <<"w", "o", "o", "f">>, 1)
                 = << <<0, 0>>, <<1, 1>>, <<2, 2>>, <<3, 3>>, <<3, 4>> >>

C12_Witness ==
    /\ Done("alignment_path")
    /\ args.graphemes1 = <<"a">>
    /\ args.graphemes2 = <<"b">>
    /\ args.sub_cost = 2
    /\ alignment_matrix(<<"a">>, <<"b">>, 2)[<<1, 1>>] = <<1, 0>>
    /\ ret = << <<0, 0>>, <<1, 0>>, <<1, 1>> >>

C12_WitnessAboveBeforeDiagonal ==
    /\ Done("alignment_path")
    /\ \E row \in 1..Len(args.graphemes1) : \E col \in 1..Len(args.graphemes2) :
          LET m == levenshtein_distance_recurrence_matrix(
                       args.graphemes1, args.graphemes2, args.sub_cost)
          IN  /\ m[row][col - 1] + 1 > m[row][col]
              /\ m[row - 1][col] + 1 = m[row][col]
              /\ m[row - 1][col - 1]
                   + SubstitutionCost(args.graphemes1, args.graphemes2,
                                      row, col, args.sub_cost) = m[row][col]
              /\ alignment_matrix(args.graphemes1, args.graphemes2,
                                  args.sub_cost)[<<row, col>>] = <<row - 1, col>>

(***************************************************************************)
(* The three step shapes of a path: (0,+1), (+1,0) and (+1,+1).            *)
(***************************************************************************)
StepShapes == {<<0, 1>>, <<1, 0>>, <<1, 1>>}

StepOf(path, k) == <<path[k + 1][1] - path[k][1], path[k + 1][2] - path[k][2]>>

Max2(x, y) == IF x >= y THEN x ELSE y

(* The chain of predecessors from (m, n): its k-th element is the recorded *)
(* predecessor of the (k-1)-th, and only the last has none.                *)
IsPredecessorChain(chain, backtrace) ==
    /\ Len(chain) >= 1
    /\ \A k \in 1..(Len(chain) - 1) :
          /\ chain[k] \in DOMAIN backtrace
          /\ backtrace[chain[k]] = chain[k + 1]
    /\ chain[Len(chain)] \notin DOMAIN backtrace

(* C13: following the recorded predecessors from (m, n) terminates at      *)
(* (0, 0); the path of alignment_path starts at (0,0), ends at (m,n), each *)
(* step is (0,+1), (+1,0) or (+1,+1), and the number of steps is between   *)
(* max(m,n) and m+n.                                                       *)
C13_PathMonotonicFromOriginToEnd ==
    Done("alignment_path") =>
        LET m == Len(args.graphemes1)
            n == Len(args.graphemes2)
            steps == Len(ret) - 1
        IN  /\ IsPredecessorChain(
                   reverse(ret),
                   alignment_matrix(args.graphemes1, args.graphemes2, args.sub_cost))
            /\ ret[1] = <<0, 0>>
            /\ ret[Len(ret)] = <<m, n>>
            /\ \A k \in 1..steps : StepOf(ret, k) \in StepShapes
            /\ Max2(m, n) <= steps
            /\ steps <= m + n

C13_Witness ==
    /\ Done("alignment_path")
    /\ args.graphemes1 = <<"a", "b", "a">>
    /\ args.graphemes2 = <<"b", "b">>
    /\ args.sub_cost = 3
    /\ Len(ret) = 5
    /\ {StepOf(ret, k) : k \in 1..4} = StepShapes

(* C14 as stated: when both sequences are empty the alignment path is the  *)
(* empty path and alignment_strings returns through the path.is_empty()    *)
(* early return.                                                           *)
C14_EmptyInputsTakeEarlyReturn_AsStated ==
    (Done("alignment_strings") /\ args.graphemes1 = <<>> /\ args.graphemes2 = <<>>)
        => /\ alignment_path(args.graphemes1, args.graphemes2, args.sub_cost) = <<>>
           /\ ret.early_return

(* C14 amended: when both sequences are empty the alignment path is the    *)
(* one-coordinate path [(0,0)], not the empty path; alignment_strings      *)
(* returns its two empty sequences through the general loop, which runs    *)
(* no iteration.  The path is never empty, so the path.is_empty() early    *)
(* return is taken for no input.                                           *)
C14_EmptyInputsGiveOriginPath ==
    Done("alignment_strings") =>
        /\ alignment_path(args.graphemes1, args.graphemes2, args.sub_cost) # <<>>
        /\ ~ret.early_return
        /\ (args.graphemes1 = <<>> /\ args.graphemes2 = <<>>) =>
              /\ alignment_path(args.graphemes1, args.graphemes2, args.sub_cost)
                   = << <<0, 0>> >>
              /\ ~ret.panicked
              /\ ret.align_graphemes1 = <<>>
              /\ ret.align_graphemes2 = <<>>

C14_Witness ==
    /\ Done("alignment_strings")
    /\ args.graphemes1 = <<>>
    /\ args.graphemes2 = <<>>
    /\ args.sub_cost = 2
    /\ args.ins_del_char = Space
    /\ ret = [panicked |-> FALSE, early_return |-> FALSE,
              align_graphemes1 |-> <<>>, align_graphemes2 |-> <<>>]

(* C15: the panic!() branch of alignment_strings is unreachable: every     *)
(* consecutive pair of path coordinates has one of the three handled       *)
(* shapes, and every index used (row-1 into S1, col-1 into S2) is within   *)
(* bounds.                                                                 *)
C15_PanicUnreachable ==
    Done("alignment_strings") =>
        LET path == alignment_path(args.graphemes1, args.graphemes2, args.sub_cost)
        IN  /\ ~ret.panicked
            /\ \A k \in 2..Len(path) :
                  LET row  == path[k][1]
                      col  == path[k][2]
                      prev == path[k - 1]
                      diag == row # 0 /\ row - 1 = prev[1] /\ col # 0 /\ col - 1 = prev[2]
                      ins  == row = prev[1] /\ col # 0 /\ col - 1 = prev[2]
                      del  == row # 0 /\ row - 1 = prev[1] /\ col = prev[2]
                  IN  /\ diag \/ ins \/ del
                      /\ (diag \/ del) => (0 <= row - 1 /\ row - 1 < Len(args.graphemes1))
                      /\ (diag \/ ins) => (0 <= col - 1 /\ col - 1 < Len(args.graphemes2))

C15_Witness ==
    /\ Done("alignment_strings")
    /\ args.graphemes1 = <<"a", "b", "a">>
    /\ args.graphemes2 = <<"b", "b">>
    /\ args.sub_cost = 3
    /\ args.ins_del_char = Space
    /\ ~ret.panicked
    /\ ret.align_graphemes1 = <<"a", "b", "a", Space>>
    /\ ret.align_graphemes2 = <<Space, "b", Space, "b">>

(***************************************************************************)
(* Statements about the recursion of max_match.                            *)
(***************************************************************************)
Suffix(graphemes, n) == SubSeq(graphemes, Len(graphemes) - n + 1, Len(graphemes))

(* The output that a chain of invocations produces: the k-th invocation    *)
(* contributes the part of its sentence that the next one does not get,    *)
(* followed by a space when the next sentence is non-empty.                *)
RECURSIVE OutputOfCalls(_, _)
OutputOfCalls(calls, k) ==
    IF k >= Len(calls) THEN <<>>
    ELSE SubSeq(calls[k], 1, Len(calls[k]) - Len(calls[k + 1]))
         \o (IF calls[k + 1] # <<>> THEN <<Space>> ELSE <<>>)
         \o OutputOfCalls(calls, k + 1)

(* C16: max_match terminates: every invocation on a non-empty sentence     *)
(* makes one recursive call, on a suffix strictly shorter than its own     *)
(* sentence; the chain ends with the empty sentence, so there are at most  *)
(* len(sentence) + 1 nested invocations; and the chain produces the output *)
(* max_match returns.                                                      *)
C16_MaxMatchTerminates ==
    Done("max_match") =>
        LET calls == max_match_calls(args.sentence, args.dictionary,
                                     Len(args.sentence) + 2)
        IN  /\ calls[1] = args.sentence
            /\ calls[Len(calls)] = <<>>
            /\ \A k \in 1..(Len(calls) - 1) :
                  /\ calls[k] # <<>>
                  /\ Len(calls[k + 1]) < Len(calls[k])
                  /\ calls[k + 1] = Suffix(calls[k], Len(calls[k + 1]))
            /\ Len(calls) <= Len(args.sentence) + 1
            /\ ret = OutputOfCalls(calls, 1)

C16_Witness ==
    /\ Done("max_match")
    /\ args.sentence = <<"b", "b", "b">>
    /\ args.dictionary = {<<"a">>, <<>>}
    /\ max_match_calls(args.sentence, args.dictionary, 5)
         = << <<"b", "b", "b">>, <<"b", "b">>, <<"b">>, <<>> >>
    /\ ret = <<"b", Space, "b", Space, "b">>

C16_WitnessDictionaryWord ==
    /\ Done("max_match")
    /\ args.sentence = <<"a", "b", "a">>
    /\ args.dictionary = {<<"a">>, <<"a", "b">>}
    /\ max_match_calls(args.sentence, args.dictionary, 5)
         = << <<"a", "b", "a">>, <<"a">>, <<>> >>

====
